---- MODULE Spec2Model ----
(***************************************************************************)
(* Model of the flat-file record store Rows<S> (src/src/rows.rs) and of the *)
(* key-value store Dict<K, V> (src/src/dict.rs).                           *)
(*                                                                         *)
(* The store path holds a csv file, modelled as a sequence of rows: a      *)
(* header row, record rows, and possibly a torn row (the bytes a write     *)
(* interrupted half-way through a row leaves behind).  Every public        *)
(* operation is split at the points where it touches the file system, so   *)
(* that a process crash, an I/O error and a read through another handle    *)
(* can fall between any two of them.                                       *)
(***************************************************************************)
EXTENDS Integers, Sequences, FiniteSets, TLC

\* Bounds of the model.
MaxId == 1
MaxBatch == 2
MaxRows == 2
MaxFaults == 1

\* The handle the single-writer specification works through, and the
\* handles there are on the store path.
Handles == {1}
AllHandles == {1, 2}

Ids == 0..MaxId
\* The amounts the tests give a record (111 and 222 in test_multiple).
Amounts == {111, 222}
\* The record type S; the tests' struct Scaf, with its id and amount fields.
Scaf == [id : Ids, amount : Amounts]
\* The Vec<S> arguments of the bulk operations.
Batches == UNION {[1..n -> Scaf] : n \in 0..MaxBatch}

VARIABLES
    file,    \* rows of the file at the store path
    tmp,     \* the file at the temporary path: [exists, rows]
    pc,      \* per handle: the step its operation in flight is at
    op,      \* per handle: the operation called last, [name, data, id]
    pre,     \* per handle: rows of the file when that operation was called
    res,     \* per handle: what that operation returned
    rpos,    \* per handle: rows the csv reader has consumed
    wbuf,    \* per handle: rows serialized into the csv writer's buffer
    whdr,    \* per handle: the csv writer's header state
    idx,     \* per handle: next element of the data vector to serialize
    obs,     \* result of the last read_all through another handle
    clean,   \* no operation has failed or crashed so far
    faults,  \* I/O errors, refused records and crashes so far
    ilog,    \* records appended since the store was last known empty
    pretmp,  \* per handle: the temporary file when that operation was called
    rlive,   \* per handle: the file its reader opened is still at the store path
    rold,    \* per handle: rows of the file its reader opened, once replaced
    wtgt,    \* per handle: where the file its writer opened is now
    index,   \* Dict: the committed index, [exists, map]
    tx,      \* Dict: the index as the transaction in flight has it
    dpc,     \* Dict: the step the operation in flight is at
    dop,     \* Dict: the operation called last, [name, key, val, after]
    dres,    \* Dict: what that operation returned, [kind, val]
    dpre,    \* Dict: the committed index when that operation was called
    dobs,    \* Dict: result of the last size() through another handle
    dlast,   \* Dict: the insert or clear that returned Ok last
    disk,    \* constructors: the paths at which there is a file
    made     \* constructors: the last construction, [store, path, ok, before]

rowsvars == <<file, tmp, pc, op, pre, res, rpos, wbuf, whdr, idx, obs, clean,
              faults, ilog, pretmp, rlive, rold, wtgt>>
dictvars == <<index, tx, dpc, dop, dres, dpre, dobs, dlast>>
newvars == <<disk, made>>
vars == <<rowsvars, dictvars, newvars>>

----------------------------------------------------------------------------
\* Rows and the csv conversions.

HeaderRow == [kind |-> "header", id |-> 0, amount |-> 0]
TornRow == [kind |-> "torn", id |-> 0, amount |-> 0]

\* HasId::id
id(r) == r.id

\* csv::Writer::serialize of one record: one record row.
serialize(r) == [kind |-> "record", id |-> r.id, amount |-> r.amount]

\* csv deserialization of one row into S: fails on anything but a record row.
deserialize(row) ==
    IF row.kind = "record"
    THEN [ok |-> TRUE, val |-> [id |-> row.id, amount |-> row.amount]]
    ELSE [ok |-> FALSE, val |-> [id |-> 0, amount |-> 111]]

Ok(rs) == [ok |-> TRUE, rows |-> rs]
Err == [ok |-> FALSE, rows |-> <<>>]

RECURSIVE decode_rows(_)
decode_rows(rows) ==
    IF rows = <<>> THEN Ok(<<>>)
    ELSE LET d == deserialize(Head(rows))
             rest == decode_rows(Tail(rows))
         IN IF d.ok /\ rest.ok THEN Ok(<<d.val>> \o rest.rows) ELSE Err

\* Rows::read_all on file content f.  The csv reader takes the first row as
\* the header; the rows after it decode by the header's field names, so they
\* all fail when the first row is not the header.
read_all(f) ==
    IF Len(f) <= 1 THEN Ok(<<>>)
    ELSE IF Head(f) # HeaderRow THEN Err
    ELSE decode_rows(Tail(f))

\* Rows::member, Rows::get and Rows::size, all through read_all.
member(f, i) ==
    LET all == read_all(f)
    IN [ok |-> all.ok, val |-> \E k \in 1..Len(all.rows) : id(all.rows[k]) = i]

\* A get for which an id no record has is an error.
get_or_error(f, i) ==
    LET all == read_all(f)
        hits == {k \in 1..Len(all.rows) : id(all.rows[k]) = i}
    IN [ok |-> all.ok /\ hits # {},
        val |-> IF hits = {} THEN <<>>
                ELSE <<all.rows[CHOOSE k \in hits : \A j \in hits : k <= j]>>]

get(f, i) ==
    LET all == read_all(f)
        hits == {k \in 1..Len(all.rows) : id(all.rows[k]) = i}
    IN [ok |-> all.ok,
        val |-> IF hits = {} THEN <<>>
                ELSE <<all.rows[CHOOSE k \in hits : \A j \in hits : k <= j]>>]

size(f) ==
    LET all == read_all(f) IN [ok |-> all.ok, val |-> Len(all.rows)]

\* Bytes written at the end of a file: rows written after a torn row run
\* into it, the first of them becoming part of the torn row.
write_rows(f, rs) ==
    IF rs = <<>> THEN f
    ELSE IF f # <<>> /\ f[Len(f)].kind = "torn" THEN f \o Tail(rs)
    ELSE f \o rs

\* What a write of buffer b that stops part-way can leave: a proper prefix of
\* the rows, with or without a torn piece of the next one.
partial_writes(b) ==
    {SubSeq(b, 1, k) : k \in 0..(Len(b) - 1)}
        \cup {SubSeq(b, 1, k) \o <<TornRow>> : k \in 0..(Len(b) - 1)}

\* The HashMap update_multiple collects: for each id the last record given.
updates(data) ==
    [i \in {id(data[k]) : k \in 1..Len(data)} |->
        data[CHOOSE k \in 1..Len(data) :
                /\ id(data[k]) = i
                /\ \A j \in 1..Len(data) : id(data[j]) = i => j <= k]]

NoFile == [exists |-> FALSE, rows |-> <<>>]
NoOp == [name |-> "none", data |-> <<>>, id |-> 0]
NoObs == [seen |-> FALSE, ok |-> TRUE, rows |-> <<>>]

StartLog == [valid |-> TRUE, recs |-> <<>>]
NoLog == [valid |-> FALSE, recs |-> <<>>]

DataRows(f) == IF f = <<>> THEN 0 ELSE Len(f) - 1

\* The complete file that holds records recs.
Rendered(recs) ==
    IF recs = <<>> THEN <<>>
    ELSE <<HeaderRow>> \o [k \in 1..Len(recs) |-> serialize(recs[k])]

----------------------------------------------------------------------------
\* Rows::new on a path with no file: an empty file, nothing in flight.
RowsInit ==
    /\ file = <<>>
    /\ tmp = NoFile
    /\ pc = [h \in AllHandles |-> "idle"]
    /\ op = [h \in AllHandles |-> NoOp]
    /\ pre = [h \in AllHandles |-> <<>>]
    /\ res = [h \in AllHandles |-> "none"]
    /\ rpos = [h \in AllHandles |-> 0]
    /\ wbuf = [h \in AllHandles |-> <<>>]
    /\ whdr = [h \in AllHandles |-> "none"]
    /\ idx = [h \in AllHandles |-> 0]
    /\ obs = NoObs
    /\ clean = TRUE
    /\ faults = 0
    /\ ilog = StartLog
    /\ pretmp = [h \in AllHandles |-> NoFile]
    /\ rlive = [h \in AllHandles |-> TRUE]
    /\ rold = [h \in AllHandles |-> <<>>]
    /\ wtgt = [h \in AllHandles |-> "own"]

\* A call: the operation and the file content it starts from are recorded.
Call(h, name, data, i) ==
    /\ pc[h] = "idle"
    /\ op' = [op EXCEPT ![h] = [name |-> name, data |-> data, id |-> i]]
    /\ pre' = [pre EXCEPT ![h] = file]
    /\ pretmp' = [pretmp EXCEPT ![h] = tmp]
    /\ obs' = NoObs

\* The call is over with result r.
End(h, r) ==
    /\ pc' = [pc EXCEPT ![h] = "returned"]
    /\ res' = [res EXCEPT ![h] = r]
    /\ rpos' = [rpos EXCEPT ![h] = 0]
    /\ wbuf' = [wbuf EXCEPT ![h] = <<>>]
    /\ whdr' = [whdr EXCEPT ![h] = "none"]
    /\ idx' = [idx EXCEPT ![h] = 0]
    /\ clean' = (clean /\ r = "ok")
    /\ UNCHANGED <<dictvars, newvars>>

\* The reader and the writer of the call are dropped.
Release(h) ==
    /\ rlive' = [rlive EXCEPT ![h] = TRUE]
    /\ rold' = [rold EXCEPT ![h] = <<>>]
    /\ wtgt' = [wtgt EXCEPT ![h] = "own"]

\* The call is over with result r; its reader and writer are dropped.
Finish(h, r) == End(h, r) /\ Release(h)

\* The call returns r, by its own logic.
Return(h, r) == Finish(h, r) /\ UNCHANGED faults

\* The call ends with r because of a fault: an I/O error of the file
\* system, a record the csv writer refuses, or the death of the process.
Fail(h, r) ==
    /\ faults < MaxFaults
    /\ faults' = faults + 1
    /\ Finish(h, r)

\* The call goes on to step p.
Goto(h, p) ==
    /\ pc' = [pc EXCEPT ![h] = p]
    /\ UNCHANGED <<res, clean, faults, rlive, rold, wtgt, dictvars, newvars>>

\* The header the writer puts before the first record it serializes.
pending_header(h) == IF whdr[h] = "write" THEN <<HeaderRow>> ELSE <<>>

\* One writer.serialize(row) that succeeds: the row, after the header when
\* that is still due, goes into the writer's buffer.
buffer_row(h, r) ==
    /\ wbuf' = [wbuf EXCEPT ![h] = @ \o pending_header(h) \o <<serialize(r)>>]
    /\ whdr' = [whdr EXCEPT ![h] = IF @ = "write" THEN "did" ELSE @]

\* What the buffer holds when a serialize fails: the header may have gone in
\* before the record was refused.
failed_buffers(h) == {wbuf[h], wbuf[h] \o pending_header(h)}

\* Bytes written at the start of a file, by a writer that has written
\* nothing yet: they replace what the file holds there.
write_at(f, rs) == rs \o SubSeq(f, Len(rs) + 1, Len(f))

\* A reader that reads whatever file is at the store path now.
source_at_path(h) == file

\* The rows the reader of handle h reads: those of the file it opened,
\* which a rename through another handle may have replaced at the store
\* path since.
source(h) == IF rlive[h] THEN file ELSE rold[h]

\* A write of rows rs by the appending writer of insert_multiple: it goes to
\* the end of the file the writer opened, which is the file at the store
\* path unless a rename has replaced it there.
append_rows(h, rs) ==
    IF wtgt[h] = "own" THEN file' = write_rows(file, rs) ELSE UNCHANGED file

\* A write of rows rs by the writer of overwrite, at the start of the file
\* File::create opened.
create_rows(h, rs) ==
    IF wtgt[h] = "own" THEN file' = write_at(file, rs) ELSE UNCHANGED file

\* A write of rows rs by the writer of a rewrite, at the start of the file
\* File::create opened at the temporary path: that file is at the
\* temporary path still, or a rename through another handle has put it at
\* the store path, or a second rename has replaced it there.
temp_rows(h, rs) ==
    CASE wtgt[h] = "own" -> tmp' = [tmp EXCEPT !.rows = write_at(@, rs)] /\ UNCHANGED file
      [] wtgt[h] = "file" -> file' = write_at(file, rs) /\ UNCHANGED tmp
      [] OTHER -> UNCHANGED <<file, tmp>>

\* Handles whose operation has a reader open on the store file, a writer
\* open on the temporary file, a writer open on the store file.
ReaderOpen(g) == pc[g] \in {"temp_create", "temp_loop", "temp_flush", "temp_rename"}
TempWriter(g) == pc[g] \in {"temp_loop", "temp_flush", "temp_rename"}
StoreWriter(g) ==
    pc[g] \in {"insert_serialize", "insert_flush", "overwrite_serialize",
               "overwrite_flush"}

----------------------------------------------------------------------------
\* Rows::insert_multiple, lines 44-47: an empty vector returns at once.
insert_multiple(h, data) ==
    /\ Call(h, "insert_multiple", data, 0)
    /\ IF data = <<>>
       THEN Return(h, "ok")
       ELSE Goto(h, "insert_open") /\ UNCHANGED <<rpos, wbuf, whdr, idx>>
    /\ UNCHANGED <<file, tmp, ilog>>

\* Rows::insert
insert(h, r) == insert_multiple(h, <<r>>)

\* A writer that emits the header on every append.
has_headers_always(f) == "write"

\* Line 52, has_headers(meta.len() == 0): the header state of a writer that
\* appends to file content f.
has_headers_append(f) == IF Len(f) = 0 THEN "write" ELSE "none"

\* Lines 48-53: open for append, and a writer that emits the header exactly
\* when the file's length is 0.
insert_multiple_open(h) ==
    /\ pc[h] = "insert_open"
    /\ \/ /\ whdr' = [whdr EXCEPT ![h] = has_headers_append(file)]
          /\ idx' = [idx EXCEPT ![h] = 1]
          /\ Goto(h, "insert_serialize")
          /\ UNCHANGED <<rpos, wbuf, ilog>>
       \/ Fail(h, "io_error") /\ ilog' = NoLog
    /\ UNCHANGED <<file, tmp, op, pre, pretmp, obs>>

\* Lines 55-57, one turn of the loop.  When serialize fails the function
\* returns the error and the writer is dropped, which flushes what it had
\* buffered to the file, unless that write fails too.
insert_multiple_serialize(h) ==
    /\ pc[h] = "insert_serialize"
    /\ \/ /\ buffer_row(h, op[h].data[idx[h]])
          /\ idx' = [idx EXCEPT ![h] = @ + 1]
          /\ Goto(h, IF idx[h] = Len(op[h].data)
                     THEN "insert_flush" ELSE "insert_serialize")
          /\ UNCHANGED <<file, rpos, ilog>>
       \/ /\ \E b \in failed_buffers(h) \cup {<<>>} : append_rows(h, b)
          /\ Fail(h, "csv_error")
          /\ ilog' = NoLog
    /\ UNCHANGED <<tmp, op, pre, pretmp, obs>>

\* An insert that takes the place of the stored records with the ids of
\* the records inserted.
insert_multiple_flush_upsert(h) ==
    /\ pc[h] = "insert_flush"
    /\ LET ids == {id(op[h].data[k]) : k \in 1..Len(op[h].data)}
           kept == SelectSeq(file, LAMBDA row : row.kind # "record" \/ row.id \notin ids)
       IN \/ /\ file' = write_rows(kept, wbuf[h])
             /\ Return(h, "ok")
             /\ ilog' = IF ilog.valid
                        THEN [ilog EXCEPT !.recs = @ \o op[h].data] ELSE ilog
          \/ /\ \E w \in partial_writes(wbuf[h]) : append_rows(h, w)
             /\ Fail(h, "io_error")
             /\ ilog' = NoLog
    /\ UNCHANGED <<tmp, op, pre, pretmp, obs>>

\* Lines 58-60: the flush appends the buffer to the file; a flush that
\* fails may have written part of it.
insert_multiple_flush(h) ==
    /\ pc[h] = "insert_flush"
    /\ \/ /\ append_rows(h, wbuf[h])
          /\ Return(h, "ok")
          /\ ilog' = IF ilog.valid
                     THEN [ilog EXCEPT !.recs = @ \o op[h].data] ELSE ilog
       \/ /\ \E w \in partial_writes(wbuf[h]) : append_rows(h, w)
          /\ Fail(h, "io_error")
          /\ ilog' = NoLog
    /\ UNCHANGED <<tmp, op, pre, pretmp, obs>>

----------------------------------------------------------------------------
\* An overwrite that refuses nothing.
overwrite_rejects_nothing(data) == FALSE

\* Line 113: the vector overwrite refuses.
overwrite_rejects(data) == data = <<>>

\* Rows::overwrite, lines 112-115: an empty vector is refused.
overwrite(h, data) ==
    /\ Call(h, "overwrite", data, 0)
    /\ IF overwrite_rejects(data)
       THEN Return(h, "empty_error")
       ELSE Goto(h, "overwrite_create") /\ UNCHANGED <<rpos, wbuf, whdr, idx>>
    /\ ilog' = NoLog
    /\ UNCHANGED <<file, tmp>>

\* Lines 117-119: File::create truncates the file at the store path; the
\* writer on it emits the header before the first record.
overwrite_create(h) ==
    /\ pc[h] = "overwrite_create"
    /\ \/ /\ file' = <<>>
          /\ whdr' = [whdr EXCEPT ![h] = "write"]
          /\ idx' = [idx EXCEPT ![h] = 1]
          /\ Goto(h, IF op[h].data = <<>>
                     THEN "overwrite_flush" ELSE "overwrite_serialize")
          /\ UNCHANGED <<rpos, wbuf>>
       \/ Fail(h, "io_error") /\ UNCHANGED file
    /\ UNCHANGED <<tmp, op, pre, pretmp, obs, ilog>>

\* Lines 121-123, one turn of the loop; on failure the dropped writer
\* flushes into the truncated file.
overwrite_serialize(h) ==
    /\ pc[h] = "overwrite_serialize"
    /\ \/ /\ buffer_row(h, op[h].data[idx[h]])
          /\ idx' = [idx EXCEPT ![h] = @ + 1]
          /\ Goto(h, IF idx[h] = Len(op[h].data)
                     THEN "overwrite_flush" ELSE "overwrite_serialize")
          /\ UNCHANGED <<file, rpos>>
       \/ /\ \E b \in failed_buffers(h) \cup {<<>>} : create_rows(h, b)
          /\ Fail(h, "csv_error")
    /\ UNCHANGED <<tmp, op, pre, pretmp, obs, ilog>>

\* Lines 124-126.
overwrite_flush(h) ==
    /\ pc[h] = "overwrite_flush"
    /\ \/ /\ create_rows(h, wbuf[h])
          /\ Return(h, "ok")
       \/ /\ \E w \in partial_writes(wbuf[h]) : create_rows(h, w)
          /\ Fail(h, "io_error")
    /\ UNCHANGED <<tmp, op, pre, pretmp, obs, ilog>>

\* A drop that removes the temporary file as well.
drop_with_temp(h) ==
    /\ Call(h, "drop", <<>>, 0)
    /\ \/ file' = <<>> /\ tmp' = NoFile /\ Return(h, "ok") /\ ilog' = StartLog
       \/ UNCHANGED <<file, tmp>> /\ Fail(h, "io_error") /\ ilog' = NoLog

\* Rows::drop: File::create truncates the file.
drop(h) ==
    /\ Call(h, "drop", <<>>, 0)
    /\ \/ file' = <<>> /\ Return(h, "ok") /\ ilog' = StartLog
       \/ UNCHANGED file /\ Fail(h, "io_error") /\ ilog' = NoLog
    /\ UNCHANGED tmp

----------------------------------------------------------------------------
\* Rows::update_multiple, lines 65-73: an empty vector returns at once;
\* otherwise the updates are collected by id and the rewrite starts.
update_multiple(h, data) ==
    /\ Call(h, "update_multiple", data, 0)
    /\ IF data = <<>>
       THEN Return(h, "ok")
       ELSE Goto(h, "temp_open") /\ UNCHANGED <<rpos, wbuf, whdr, idx>>
    /\ ilog' = NoLog
    /\ UNCHANGED <<file, tmp>>

\* Rows::update
update(h, r) == update_multiple(h, <<r>>)

\* A delete that reports an id that is not in the store as an error.
delete_absent_is_error == "not_found_error"

\* Line 90: what delete returns for an id that is not in the store.
delete_absent == "ok"

\* A delete that rewrites the file whether a record has the id or not.
delete_always_rewrites(h, i) ==
    /\ Call(h, "delete", <<>>, i)
    /\ \/ Goto(h, "temp_open") /\ UNCHANGED <<rpos, wbuf, whdr, idx>>
       \/ Fail(h, "io_error")
    /\ ilog' = NoLog
    /\ UNCHANGED <<file, tmp>>

\* Rows::delete, lines 88-91: member reads the whole file; an id that is
\* not there returns at once, without a rewrite.
delete(h, i) ==
    /\ Call(h, "delete", <<>>, i)
    /\ \/ LET m == member(file, i)
          IN IF ~m.ok THEN Return(h, "csv_error")
             ELSE IF ~m.val THEN Return(h, delete_absent)
             ELSE Goto(h, "temp_open") /\ UNCHANGED <<rpos, wbuf, whdr, idx>>
       \/ Fail(h, "io_error")
    /\ ilog' = NoLog
    /\ UNCHANGED <<file, tmp>>

\* Rows::with_temp_file, line 169: csv_reader opens the file at the store
\* path; nothing is read yet.
with_temp_file_open(h) ==
    /\ pc[h] = "temp_open"
    /\ \/ /\ rpos' = [rpos EXCEPT ![h] = 0]
          /\ Goto(h, "temp_create")
          /\ UNCHANGED <<wbuf, whdr, idx>>
       \/ Fail(h, "io_error")
    /\ UNCHANGED <<file, tmp, op, pre, pretmp, obs, ilog>>

\* A temporary-file writer that emits the header only when the source file
\* is empty, as an append does.
has_headers_as_append(h) == IF Len(file) = 0 THEN "write" ELSE "none"

\* Line 172, has_headers(reader.position().byte() == 0): the header state
\* of the temporary file's writer.
has_headers_temp(h) == IF rpos[h] = 0 THEN "write" ELSE "none"

\* A rewrite that creates its output at the store path.
with_temp_file_create_at_path(h) ==
    /\ pc[h] = "temp_create"
    /\ \/ /\ file' = <<>>
          /\ whdr' = [whdr EXCEPT ![h] = has_headers_temp(h)]
          /\ Goto(h, "temp_loop")
          /\ UNCHANGED <<rpos, wbuf, idx>>
       \/ Fail(h, "io_error") /\ UNCHANGED file
    /\ UNCHANGED <<tmp, op, pre, pretmp, obs, ilog>>

\* A rewrite that opens the temporary file without truncating it.
with_temp_file_create_keeps(h) ==
    /\ pc[h] = "temp_create"
    /\ \/ /\ tmp' = [exists |-> TRUE, rows |-> tmp.rows]
          /\ whdr' = [whdr EXCEPT ![h] = has_headers_temp(h)]
          /\ Goto(h, "temp_loop")
          /\ UNCHANGED <<rpos, wbuf, idx>>
       \/ Fail(h, "io_error") /\ UNCHANGED tmp
    /\ UNCHANGED <<file, op, pre, pretmp, obs, ilog>>

\* Lines 170-173: File::create makes the temporary file, or truncates the
\* one that is there; the writer emits a header when the reader's position
\* is byte 0, and the reader has not read anything yet.
with_temp_file_create(h) ==
    /\ pc[h] = "temp_create"
    /\ \/ /\ tmp' = [exists |-> TRUE, rows |-> <<>>]
          /\ whdr' = [whdr EXCEPT ![h] = has_headers_temp(h)]
          /\ Goto(h, "temp_loop")
          /\ UNCHANGED <<rpos, wbuf, idx>>
       \/ Fail(h, "io_error") /\ UNCHANGED tmp
    /\ UNCHANGED <<file, op, pre, pretmp, obs, ilog>>

\* Rows the reader has passed once it has read the header row.
after_header(h) == IF rpos[h] = 0 THEN 1 ELSE rpos[h]

\* reader.deserialize() has no further record: the closure returns Ok.
reader_at_end(h) == after_header(h) >= Len(source(h))

\* The next item of reader.deserialize(): the row after those passed,
\* decoded by the header's field names.
next_record(h) ==
    IF Head(source(h)) # HeaderRow
    THEN [ok |-> FALSE, val |-> [id |-> 0, amount |-> 111]]
    ELSE deserialize(source(h)[after_header(h) + 1])

\* The writer is dropped on an error return: what it had buffered is
\* flushed to the temporary file, unless that write fails too.
drop_writer_temp(h, bufs) == \E b \in bufs \cup {<<>>} : temp_rows(h, b)

\* An update that writes every record back as it was.
updated_record_stale(ups, rec) == rec

\* A delete that writes the records with the id and leaves out the others.
delete_keeps_inverted(rec, i) == id(rec) = i

\* Lines 78-83: the record update_multiple writes for record rec.
updated_record(ups, rec) == IF id(rec) \in DOMAIN ups THEN ups[id(rec)] ELSE rec

\* Line 95: whether delete of id i writes record rec.
delete_keeps(rec, i) == id(rec) # i

\* The closure of update_multiple, lines 76-85, one turn of the loop: the
\* record of the updates with this id when there is one, else the record
\* itself.
update_multiple_step(h) ==
    /\ pc[h] = "temp_loop"
    /\ op[h].name = "update_multiple"
    /\ IF reader_at_end(h)
       THEN Goto(h, "temp_flush") /\ UNCHANGED <<file, tmp, rpos, wbuf, whdr, idx>>
       ELSE LET rec == next_record(h)
                ups == updates(op[h].data)
            IN IF ~rec.ok
               THEN drop_writer_temp(h, {wbuf[h]}) /\ Return(h, "csv_error")
               ELSE \/ /\ buffer_row(h, updated_record(ups, rec.val))
                       /\ rpos' = [rpos EXCEPT ![h] = after_header(h) + 1]
                       /\ Goto(h, "temp_loop")
                       /\ UNCHANGED <<file, tmp, idx>>
                    \/ /\ drop_writer_temp(h, failed_buffers(h))
                       /\ Fail(h, "csv_error")
    /\ UNCHANGED <<op, pre, pretmp, obs, ilog>>

\* The closure of delete, lines 93-99, one turn of the loop: the record is
\* written unless its id is the one to delete.
delete_step(h) ==
    /\ pc[h] = "temp_loop"
    /\ op[h].name = "delete"
    /\ IF reader_at_end(h)
       THEN Goto(h, "temp_flush") /\ UNCHANGED <<file, tmp, rpos, wbuf, whdr, idx>>
       ELSE LET rec == next_record(h)
            IN IF ~rec.ok
               THEN drop_writer_temp(h, {wbuf[h]}) /\ Return(h, "csv_error")
               ELSE IF delete_keeps(rec.val, op[h].id)
               THEN \/ /\ buffer_row(h, rec.val)
                       /\ rpos' = [rpos EXCEPT ![h] = after_header(h) + 1]
                       /\ Goto(h, "temp_loop")
                       /\ UNCHANGED <<file, tmp, idx>>
                    \/ /\ drop_writer_temp(h, failed_buffers(h))
                       /\ Fail(h, "csv_error")
               ELSE /\ rpos' = [rpos EXCEPT ![h] = after_header(h) + 1]
                    /\ Goto(h, "temp_loop")
                    /\ UNCHANGED <<file, tmp, wbuf, whdr, idx>>
    /\ UNCHANGED <<op, pre, pretmp, obs, ilog>>

\* A rewrite whose writer is open on the store path: the flush lands in the
\* file itself.
with_temp_file_flush_in_place(h) ==
    /\ pc[h] = "temp_flush"
    /\ \/ /\ file' = wbuf[h]
          /\ wbuf' = [wbuf EXCEPT ![h] = <<>>]
          /\ Goto(h, "temp_rename")
          /\ UNCHANGED <<rpos, whdr, idx>>
       \/ /\ \E w \in partial_writes(wbuf[h]) : file' = w
          /\ Fail(h, "io_error")
    /\ UNCHANGED <<tmp, op, pre, pretmp, obs, ilog>>

\* A rewrite that, for an update, adds the updates no record matched to the
\* end of the temporary file.
with_temp_file_flush_upsert(h) ==
    /\ pc[h] = "temp_flush"
    /\ LET have == {id(read_all(file).rows[k]) : k \in 1..Len(read_all(file).rows)}
           new == SelectSeq(op[h].data, LAMBDA r : id(r) \notin have)
           added == [k \in 1..Len(new) |-> serialize(new[k])]
           hdr == IF added # <<>> THEN pending_header(h) ELSE <<>>
       IN \/ /\ temp_rows(h, wbuf[h] \o hdr \o added)
             /\ wbuf' = [wbuf EXCEPT ![h] = <<>>]
             /\ Goto(h, "temp_rename")
             /\ UNCHANGED <<rpos, whdr, idx>>
          \/ /\ \E w \in partial_writes(wbuf[h]) : temp_rows(h, w)
             /\ Fail(h, "io_error")
    /\ UNCHANGED <<op, pre, pretmp, obs, ilog>>

\* Line 176: the flush writes the buffer to the temporary file; a flush
\* that fails may have written part of it.
with_temp_file_flush(h) ==
    /\ pc[h] = "temp_flush"
    /\ \/ /\ temp_rows(h, wbuf[h])
          /\ wbuf' = [wbuf EXCEPT ![h] = <<>>]
          /\ Goto(h, "temp_rename")
          /\ UNCHANGED <<rpos, whdr, idx>>
       \/ /\ \E w \in partial_writes(wbuf[h]) : temp_rows(h, w)
          /\ Fail(h, "io_error")
    /\ UNCHANGED <<op, pre, pretmp, obs, ilog>>

\* Lines 178-180: fs::rename puts the temporary file at the store path.
\* The file that was at the store path is there no more: a reader that
\* has it open goes on reading it, a writer that has it open writes to a
\* file no path leads to, and a writer open on the file that was at the
\* temporary path now writes to the store file.
renamed(h) ==
    /\ rlive' = [g \in AllHandles |-> IF g = h THEN TRUE
                                       ELSE IF ReaderOpen(g) THEN FALSE
                                       ELSE rlive[g]]
    /\ rold' = [g \in AllHandles |-> IF g = h THEN <<>>
                                      ELSE IF ReaderOpen(g) /\ rlive[g] THEN file
                                      ELSE rold[g]]
    /\ wtgt' = [g \in AllHandles |->
                  IF g = h THEN "own"
                  ELSE IF TempWriter(g) /\ wtgt[g] = "own" THEN "file"
                  ELSE IF TempWriter(g) \/ StoreWriter(g) THEN "orphan"
                  ELSE wtgt[g]]

with_temp_file_rename(h) ==
    /\ pc[h] = "temp_rename"
    /\ \/ /\ tmp.exists
          /\ file' = tmp.rows
          /\ tmp' = NoFile
          /\ End(h, "ok")
          /\ renamed(h)
          /\ UNCHANGED faults
       \/ /\ ~tmp.exists
          /\ Return(h, "io_error")
          /\ UNCHANGED <<file, tmp>>
       \/ Fail(h, "io_error") /\ UNCHANGED <<file, tmp>>
    /\ UNCHANGED <<op, pre, pretmp, obs, ilog>>

----------------------------------------------------------------------------
\* The process dies in the middle of a call.  What the writer had buffered
\* is lost; a death during a flush leaves part of the buffer written.
crash(h) ==
    /\ pc[h] \notin {"idle", "returned"}
    /\ IF pc[h] = "insert_flush"
       THEN (\E w \in partial_writes(wbuf[h]) : append_rows(h, w)) /\ UNCHANGED tmp
       ELSE IF pc[h] = "overwrite_flush"
       THEN (\E w \in partial_writes(wbuf[h]) : create_rows(h, w)) /\ UNCHANGED tmp
       ELSE IF pc[h] = "temp_flush"
       THEN \E w \in partial_writes(wbuf[h]) : temp_rows(h, w)
       ELSE UNCHANGED <<file, tmp>>
    /\ Fail(h, "crash")
    /\ ilog' = NoLog
    /\ UNCHANGED <<op, pre, pretmp, obs>>

\* Rows::read_all through another handle on the same path.
observe(h) ==
    /\ pc[h] # "idle"
    /\ obs' = [seen |-> TRUE, ok |-> read_all(file).ok, rows |-> read_all(file).rows]
    /\ UNCHANGED <<file, tmp, pc, op, pre, res, rpos, wbuf, whdr, idx, clean,
                   faults, ilog, pretmp, rlive, rold, wtgt, dictvars, newvars>>

\* The caller has the result; the handle keeps nothing of the call but its
\* path.
result_taken(h) ==
    /\ pc[h] = "returned"
    /\ pc' = [pc EXCEPT ![h] = "idle"]
    /\ op' = [op EXCEPT ![h] = NoOp]
    /\ pre' = [pre EXCEPT ![h] = <<>>]
    /\ pretmp' = [pretmp EXCEPT ![h] = NoFile]
    /\ res' = [res EXCEPT ![h] = "none"]
    /\ obs' = NoObs
    /\ UNCHANGED <<file, tmp, rpos, wbuf, whdr, idx, clean, faults, ilog,
                   rlive, rold, wtgt, dictvars, newvars>>

\* The vectors and records an insert may add without the store growing
\* beyond MaxRows records.
Fits(data) == DataRows(file) + Len(data) <= MaxRows

Next ==
    \E h \in Handles :
        \/ \E data \in Batches : Fits(data) /\ insert_multiple(h, data)
        \/ \E r \in Scaf : Fits(<<r>>) /\ insert(h, r)
        \/ insert_multiple_open(h)
        \/ insert_multiple_serialize(h)
        \/ insert_multiple_flush(h)
        \/ \E data \in Batches : overwrite(h, data)
        \/ overwrite_create(h)
        \/ overwrite_serialize(h)
        \/ overwrite_flush(h)
        \/ drop(h)
        \/ \E data \in Batches : update_multiple(h, data)
        \/ \E r \in Scaf : update(h, r)
        \/ \E i \in Ids : delete(h, i)
        \/ with_temp_file_open(h)
        \/ with_temp_file_create(h)
        \/ update_multiple_step(h)
        \/ delete_step(h)
        \/ with_temp_file_flush(h)
        \/ with_temp_file_rename(h)
        \/ crash(h)
        \/ observe(h)
        \/ result_taken(h)

----------------------------------------------------------------------------
\* Dict<K, V> (src/src/dict.rs): one persy index, PRIMARY_INDEX, from keys
\* to byte vectors.  persy applies the steps of a transaction to the
\* transaction's own view of the index and makes them visible to readers at
\* commit, all at once.

\* The keys and the values of the tests: u32 keys, Scaf values.
Keys == Ids
Values == Scaf

\* serde_json::to_vec of a value: its fields, in the order of the struct.
to_vec(v) == <<v.id, v.amount>>

\* serde_json::from_slice: fails on bytes that are not a value's.
from_slice(b) ==
    IF Len(b) = 2 /\ b[1] \in Ids /\ b[2] \in Amounts
    THEN [ok |-> TRUE, val |-> [id |-> b[1], amount |-> b[2]]]
    ELSE [ok |-> FALSE, val |-> [id |-> 0, amount |-> 111]]

\* An index that exists and has no entry, and no index.
EmptyIndex == [exists |-> TRUE, map |-> <<>>]
NoIndex == [exists |-> FALSE, map |-> <<>>]

\* An index in which put adds the value to those the key has
\* (ValueMode::Cluster).
put_cluster(ix, k, b) ==
    [ix EXCEPT !.map = [x \in DOMAIN ix.map \cup {k} |->
                           IF x \in DOMAIN ix.map
                           THEN (IF x = k THEN ix.map[x] \o <<b>> ELSE ix.map[x])
                           ELSE <<b>>]]

\* tx.put on an index created with ValueMode::Replace: the value takes the
\* place of the one the key had.
put(ix, k, b) ==
    [ix EXCEPT !.map = [x \in DOMAIN ix.map \cup {k} |->
                           IF x = k THEN <<b>> ELSE ix.map[x]]]

DOk(v) == [kind |-> "ok", val |-> v]
DErr == [kind |-> "error", val |-> <<>>]
DNone == [kind |-> "none", val |-> <<>>]

\* The keys of a map in ascending order, as range(..) yields them.
RECURSIVE sorted(_)
sorted(K) ==
    IF K = {} THEN <<>>
    ELSE LET m == CHOOSE x \in K : \A y \in K : x <= y
         IN <<m>> \o sorted(K \ {m})

\* db.one: the first value of the key, if the key has one; an error when
\* the index is not there.
one(ix, k) ==
    IF ~ix.exists THEN DErr
    ELSE IF k \in DOMAIN ix.map THEN DOk(<<Head(ix.map[k])>>) ELSE DOk(<<>>)

\* Dict::get, lines 44-53.
Dict_get(ix, k) ==
    LET pull == one(ix, k)
    IN IF pull.kind # "ok" \/ pull.val = <<>> THEN pull
       ELSE LET out == from_slice(pull.val[1])
            IN IF out.ok THEN DOk(<<out.val>>) ELSE DErr

\* Dict::member, lines 54-57.
Dict_member(ix, k) ==
    LET pull == one(ix, k)
    IN IF pull.kind # "ok" THEN pull ELSE DOk(<<pull.val # <<>>>>)

\* Dict::size, lines 65-71: the number of items of range(..).
Dict_size(ix) ==
    IF ~ix.exists THEN DErr ELSE DOk(<<Cardinality(DOMAIN ix.map)>>)

\* Dict::keys, lines 72-79.
Dict_keys(ix) ==
    IF ~ix.exists THEN DErr ELSE DOk(sorted(DOMAIN ix.map))

\* The value values() and pairs() decode for a key: the last one it has.
last_value(ix, k) == from_slice(ix.map[k][Len(ix.map[k])])

\* Dict::values, lines 80-90.
Dict_values(ix) ==
    IF ~ix.exists THEN DErr
    ELSE LET ks == sorted(DOMAIN ix.map)
         IN IF \E k \in DOMAIN ix.map : ~last_value(ix, k).ok THEN DErr
            ELSE DOk([n \in 1..Len(ks) |-> last_value(ix, ks[n]).val])

\* Dict::pairs, lines 91-105.
Dict_pairs(ix) ==
    IF ~ix.exists THEN DErr
    ELSE LET ks == sorted(DOMAIN ix.map)
         IN IF \E k \in DOMAIN ix.map : ~last_value(ix, k).ok THEN DErr
            ELSE DOk([n \in 1..Len(ks) |-> <<ks[n], last_value(ix, ks[n]).val>>])

NoDop == [name |-> "none", key |-> 0, val |-> <<>>, after |-> "none"]
NoDobs == [seen |-> FALSE, res |-> DNone]

\* Dict::new on a path with no file: the index is created, empty.
DictInit ==
    /\ index = EmptyIndex
    /\ tx = NoIndex
    /\ dpc = "idle"
    /\ dop = NoDop
    /\ dres = DNone
    /\ dpre = EmptyIndex
    /\ dobs = NoDobs
    /\ dlast = "none"

\* A call: db.begin() gives the transaction the committed index.
Dict_call(name, k, v) ==
    /\ dpc = "idle"
    /\ dop' = [name |-> name, key |-> k, val |-> v, after |-> dlast]
    /\ dpre' = index
    /\ dobs' = NoDobs
    /\ UNCHANGED <<index, rowsvars, newvars>>

\* The call is over with result r; its transaction is dropped.
Dict_return(r) ==
    /\ dpc' = "returned"
    /\ dres' = r
    /\ tx' = NoIndex
    /\ dlast' = IF r.kind = "ok" THEN dop.name ELSE dlast
    /\ UNCHANGED <<dop, dpre, dobs, rowsvars, newvars>>

\* The call goes on to step p.
Dict_goto(p) ==
    /\ dpc' = p
    /\ UNCHANGED <<index, dop, dres, dpre, dobs, dlast, rowsvars, newvars>>

\* Dict::insert, line 38.
Dict_insert(k, v) ==
    /\ Dict_call("insert", k, <<v>>)
    /\ tx' = index
    /\ dpc' = "insert_put"
    /\ UNCHANGED <<dres, dlast>>

\* Lines 39-40: the value is serialized and put in the transaction's index.
Dict_insert_put ==
    /\ dpc = "insert_put"
    /\ IF tx.exists
       THEN tx' = put(tx, dop.key, to_vec(dop.val[1])) /\ Dict_goto("insert_commit")
       ELSE Dict_return(DErr) /\ UNCHANGED index

\* Line 41: prepare and commit.
Dict_insert_commit ==
    /\ dpc = "insert_commit"
    /\ index' = tx
    /\ Dict_return(DOk(<<>>))

\* Dict::clear, line 59.
Dict_clear ==
    /\ Dict_call("clear", 0, <<>>)
    /\ tx' = index
    /\ dpc' = "clear_drop"
    /\ UNCHANGED <<dres, dlast>>

\* A clear that commits the drop of the index before it creates the new
\* one.
Dict_clear_drop_commits ==
    /\ dpc = "clear_drop"
    /\ tx' = NoIndex
    /\ index' = NoIndex
    /\ dpc' = "clear_create"
    /\ UNCHANGED <<dop, dres, dpre, dobs, dlast, rowsvars, newvars>>

\* Line 60: the index is dropped in the transaction.
Dict_clear_drop ==
    /\ dpc = "clear_drop"
    /\ IF tx.exists
       THEN tx' = NoIndex /\ Dict_goto("clear_create")
       ELSE Dict_return(DErr) /\ UNCHANGED index

\* Line 61: the index is created again in the transaction, empty.
Dict_clear_create ==
    /\ dpc = "clear_create"
    /\ IF ~tx.exists
       THEN tx' = EmptyIndex /\ Dict_goto("clear_commit")
       ELSE Dict_return(DErr) /\ UNCHANGED index

\* Line 62: prepare and commit.
Dict_clear_commit ==
    /\ dpc = "clear_commit"
    /\ index' = tx
    /\ Dict_return(DOk(<<>>))

\* A step of a transaction fails, or the process dies before the commit:
\* nothing of the transaction is committed.
Dict_abort ==
    /\ dpc \notin {"idle", "returned"}
    /\ Dict_return(DErr)
    /\ UNCHANGED index

\* The reads: each is one call on the committed index.
Dict_read(name, k, r) ==
    /\ Dict_call(name, k, <<>>)
    /\ dpc' = "returned"
    /\ dres' = r
    /\ UNCHANGED <<tx, dlast>>

Dict_get_call(k) == Dict_read("get", k, Dict_get(index, k))
Dict_member_call(k) == Dict_read("member", k, Dict_member(index, k))
Dict_size_call == Dict_read("size", 0, Dict_size(index))
Dict_keys_call == Dict_read("keys", 0, Dict_keys(index))
Dict_values_call == Dict_read("values", 0, Dict_values(index))
Dict_pairs_call == Dict_read("pairs", 0, Dict_pairs(index))

\* Dict::size through another handle on the same file, while a call is in
\* flight.
Dict_observe ==
    /\ dpc \notin {"idle", "returned"}
    /\ dobs' = [seen |-> TRUE, res |-> Dict_size(index)]
    /\ UNCHANGED <<index, tx, dpc, dop, dres, dpre, dlast, rowsvars, newvars>>

\* The caller has the result.
Dict_result_taken ==
    /\ dpc = "returned"
    /\ dpc' = "idle"
    /\ dop' = NoDop
    /\ dres' = DNone
    /\ dpre' = EmptyIndex
    /\ dobs' = NoDobs
    /\ UNCHANGED <<index, tx, dlast, rowsvars, newvars>>

DictNext ==
    \/ \E k \in Keys, v \in Values : Dict_insert(k, v)
    \/ Dict_insert_put
    \/ Dict_insert_commit
    \/ Dict_clear
    \/ Dict_clear_drop
    \/ Dict_clear_create
    \/ Dict_clear_commit
    \/ Dict_abort
    \/ \E k \in Keys : Dict_get_call(k)
    \/ \E k \in Keys : Dict_member_call(k)
    \/ Dict_size_call
    \/ Dict_keys_call
    \/ Dict_values_call
    \/ Dict_pairs_call
    \/ Dict_observe
    \/ Dict_result_taken

----------------------------------------------------------------------------
\* Rows::new and Dict::new.  A path is the sequence of its characters.

Csv == <<"c", "s", "v">>
Persy == <<"p", "e", "r", "s", "y">>

\* "", "a.csv", "a.persy", "a.t", ".csv", "csv", "a.csv.t", "a.CSV"
Paths ==
    { <<>>,
      <<"a", ".">> \o Csv,
      <<"a", ".">> \o Persy,
      <<"a", ".", "t">>,
      <<".">> \o Csv,
      Csv,
      <<"a", ".">> \o Csv \o <<".", "t">>,
      <<"a", ".", "C", "S", "V">> }

Some(x) == [some |-> TRUE, val |-> x]
None == [some |-> FALSE, val |-> <<>>]

\* Path::file_name: the last component of the path, none for the empty
\* path.
file_name(p) ==
    LET slashes == {n \in 1..Len(p) : p[n] = "/"}
        from == IF slashes = {} THEN 1
                ELSE 1 + CHOOSE n \in slashes : \A m \in slashes : m <= n
    IN IF from > Len(p) THEN None ELSE Some(SubSeq(p, from, Len(p)))

\* Path::extension: what follows the last dot of the file name; none when
\* there is no file name, when it has no dot, and when its only dot is its
\* first character.
extension(p) ==
    LET name == file_name(p)
        dots == {n \in 1..Len(name.val) : name.val[n] = "."}
        last == CHOOSE n \in dots : \A m \in dots : m <= n
    IN IF ~name.some \/ dots = {} THEN None
       ELSE IF last = 1 THEN None
       ELSE Some(SubSeq(name.val, last + 1, Len(name.val)))

\* A constructor that takes any path.
bad_extension_never(p, ext) == FALSE

\* Lines 25 and 20, url.extension().map_or(true, |ext| ext != "csv").
bad_extension(p, ext) ==
    LET e == extension(p) IN IF e.some THEN e.val # ext ELSE TRUE

\* An open that truncates the file.
open_truncate(f) == [exists |-> TRUE, rows |-> <<>>]

\* Lines 31-34, OpenOptions write(true).create(true): the file is created,
\* empty, when there is none, and opened as it is otherwise.
open_create(f) == IF f.exists THEN f ELSE [exists |-> TRUE, rows |-> <<>>]

\* The file persy creates, and the files there may be at a path.
PersyFile == [exists |-> TRUE, rows |-> <<[kind |-> "persy", id |-> 0, amount |-> 0]>>]
CsvFile ==
    [exists |-> TRUE,
     rows |-> <<HeaderRow, serialize([id |-> 0, amount |-> 111])>>]
DiskFiles == {NoFile, CsvFile, PersyFile}

NoMade == [store |-> "none", path |-> <<>>, ok |-> FALSE,
           before |-> [p \in Paths |-> NoFile]]

NewInit ==
    /\ disk = [p \in Paths |-> NoFile]
    /\ made = NoMade

\* The construction of store s on path p ends, with or without a handle.
Made(s, p, ok) ==
    /\ made' = [store |-> s, path |-> p, ok |-> ok, before |-> disk]
    /\ UNCHANGED <<rowsvars, dictvars>>

\* Rows::new, lines 21-40.
Rows_new(p) ==
    IF bad_extension(p, Csv)
    THEN Made("rows", p, FALSE) /\ UNCHANGED disk
    ELSE \/ /\ disk' = [disk EXCEPT ![p] = open_create(@)]
            /\ Made("rows", p, TRUE)
         \/ Made("rows", p, FALSE) /\ UNCHANGED disk

\* Dict::new, lines 16-36: persy opens the file at the path, or creates it
\* and the index when there is none; a file that is not persy's is refused.
Dict_new(p) ==
    IF bad_extension(p, Persy)
    THEN Made("dict", p, FALSE) /\ UNCHANGED disk
    ELSE \/ /\ ~disk[p].exists
            /\ disk' = [disk EXCEPT ![p] = PersyFile]
            /\ Made("dict", p, TRUE)
         \/ /\ disk[p].exists
            /\ Made("dict", p, disk[p] = PersyFile)
            /\ UNCHANGED disk
         \/ Made("dict", p, FALSE) /\ UNCHANGED disk

NewNext == \E p \in Paths : Rows_new(p) \/ Dict_new(p)

----------------------------------------------------------------------------
\* The specifications.

Init == RowsInit /\ DictInit /\ NewInit

\* One handle on the store path, with I/O errors and crashes.
Spec == Init /\ [][Next]_vars

\* The key-value store.
SpecDict == Init /\ [][DictNext]_vars

\* Either store, from its construction.
StoresNext == (DictInit /\ Next) \/ (RowsInit /\ DictNext)
SpecStores == Init /\ [][StoresNext]_vars

\* The constructors, on a file system that holds any files.
InitNew ==
    /\ RowsInit
    /\ DictInit
    /\ disk \in [Paths -> DiskFiles]
    /\ disk[<<>>] = NoFile
    /\ made = NoMade
SpecNew == InitNew /\ [][NewNext]_vars

\* The scenario of the tests test_insert and test_insert_delete, on the
\* record store: a record with id 0 is inserted twice, then a record with
\* id 1, then the records with id 0 are deleted.
ScenarioNext ==
    \E h \in Handles :
        \/ \E r \in Scaf :
              /\ ilog.valid
              /\ id(r) = (IF Len(ilog.recs) < 2 THEN 0 ELSE 1)
              /\ Len(ilog.recs) < 3
              /\ insert(h, r)
        \/ insert_multiple_open(h)
        \/ insert_multiple_serialize(h)
        \/ insert_multiple_flush(h)
        \/ ilog.valid /\ Len(ilog.recs) = 3 /\ delete(h, 0)
        \/ with_temp_file_open(h)
        \/ with_temp_file_create(h)
        \/ delete_step(h)
        \/ with_temp_file_flush(h)
        \/ with_temp_file_rename(h)
        \/ observe(h)
        \/ result_taken(h)
SpecScenario == Init /\ [][ScenarioNext]_vars

\* Two handles on one store path, each in its own thread or process, on a
\* store that holds a record with id 0, alone or with a record with id 1.
\* Each handle makes one call; there are no I/O errors and no crashes.
StoredAtStart == <<[id |-> 0, amount |-> 111], [id |-> 1, amount |-> 111]>>

InitConc ==
    /\ file \in {Rendered(SubSeq(StoredAtStart, 1, n)) : n \in 1..2}
    /\ tmp = NoFile
    /\ pc = [h \in AllHandles |-> "idle"]
    /\ op = [h \in AllHandles |-> NoOp]
    /\ pre = [h \in AllHandles |-> <<>>]
    /\ res = [h \in AllHandles |-> "none"]
    /\ rpos = [h \in AllHandles |-> 0]
    /\ wbuf = [h \in AllHandles |-> <<>>]
    /\ whdr = [h \in AllHandles |-> "none"]
    /\ idx = [h \in AllHandles |-> 0]
    /\ obs = NoObs
    /\ clean = TRUE
    /\ faults = MaxFaults
    /\ ilog = NoLog
    /\ pretmp = [h \in AllHandles |-> NoFile]
    /\ rlive = [h \in AllHandles |-> TRUE]
    /\ rold = [h \in AllHandles |-> <<>>]
    /\ wtgt = [h \in AllHandles |-> "own"]
    /\ DictInit
    /\ NewInit

ConcNext ==
    \E h \in AllHandles :
        \/ \E r \in Scaf : update(h, r)
        \/ \E i \in Ids : delete(h, i)
        \/ with_temp_file_open(h)
        \/ with_temp_file_create(h)
        \/ update_multiple_step(h)
        \/ delete_step(h)
        \/ with_temp_file_flush(h)
        \/ with_temp_file_rename(h)
        \/ \E r \in Scaf : Fits(<<r>>) /\ insert(h, r)
        \/ insert_multiple_open(h)
        \/ insert_multiple_serialize(h)
        \/ insert_multiple_flush(h)
        \/ \E r \in Scaf : overwrite(h, <<r>>)
        \/ overwrite_create(h)
        \/ overwrite_serialize(h)
        \/ overwrite_flush(h)
        \/ drop(h)
SpecConc == InitConc /\ [][ConcNext]_vars

----------------------------------------------------------------------------
\* What the claims speak of.

Rewrite(h) == op[h].name \in {"update_multiple", "delete"}
Mutating(h) ==
    op[h].name \in {"insert_multiple", "update_multiple", "delete", "overwrite", "drop"}

\* The records of file content f, for a content that decodes.
Records(f) == read_all(f).rows

DistinctIds(s) == \A a, b \in 1..Len(s) : id(s[a]) = id(s[b]) => a = b

\* Merge by identifier: the record of U with the identifier of R[k], the
\* last one if U has several, else R[k].
Merged(R, U) ==
    [k \in 1..Len(R) |->
        LET js == {j \in 1..Len(U) : id(U[j]) = id(R[k])}
        IN IF js = {} THEN R[k]
           ELSE U[CHOOSE j \in js : \A j2 \in js : j2 <= j]]

Without(R, x) == SelectSeq(R, LAMBDA r : id(r) # x)

\* The record sequence the operation of handle h is to produce.
Expected(h) ==
    LET R == Records(pre[h])
    IN CASE op[h].name = "insert_multiple" -> R \o op[h].data
         [] op[h].name = "update_multiple" -> Merged(R, op[h].data)
         [] op[h].name = "delete" -> Without(R, op[h].id)
         [] op[h].name = "overwrite" -> op[h].data
         [] OTHER -> <<>>

Seen == [ok |-> obs.ok, rows |-> obs.rows]

\* The file is empty, or one header row followed by record rows only.
WellFormed(f) ==
    \/ f = <<>>
    \/ /\ Head(f) = HeaderRow
       /\ \A k \in 2..Len(f) : f[k].kind = "record"

----------------------------------------------------------------------------
\* C1: during update/update_multiple and delete of a present id, the file at
\* the store path is the content from before the call until the rename and
\* the complete new content after it; a crash or an error before the rename
\* leaves the old content, and a read_all through another handle during
\* the rewrite returns the old or the new records, never anything else.
C1_RewriteSwitchesAtRename ==
    \A h \in Handles :
        (/\ Rewrite(h)
         /\ pc[h] # "idle"
         /\ op[h].name = "update_multiple" => op[h].data # <<>>
         /\ op[h].name = "delete" => member(pre[h], op[h].id).val)
        => LET post == Rendered(Expected(h))
           IN /\ file = pre[h] \/ file = post
              /\ pc[h] # "returned" => file = pre[h]
              /\ (pc[h] = "returned" /\ res[h] = "ok") => file = post
              /\ (pc[h] = "returned" /\ res[h] # "ok") => file = pre[h]
              /\ obs.seen => Seen \in {read_all(pre[h]), read_all(post)}

\* The rewrite is about to rename: the temporary file holds the complete new
\* content, the store path still the old one, and another handle has read.
C1_Witness ==
    \E h \in Handles :
        /\ Rewrite(h)
        /\ pc[h] = "temp_rename"
        /\ tmp.exists
        /\ tmp.rows = Rendered(Expected(h))
        /\ tmp.rows # pre[h]
        /\ file = pre[h]
        /\ obs.seen

\* C2: whatever a mutating operation does (completes, fails part-way, is cut
\* by a crash), read_all of the file returns the records from before the
\* call or the records the call was to produce.
C2_NoHalfWrittenFile ==
    \A h \in Handles :
        (Mutating(h) /\ pc[h] # "idle" /\ read_all(pre[h]).ok)
        => read_all(file) \in {read_all(pre[h]), Ok(Expected(h))}

\* C3: a rewrite that returns an error leaves the file at the store path as
\* it was before the call.
C3_FailedRewriteKeepsFile ==
    \A h \in Handles :
        (/\ Rewrite(h)
         /\ pc[h] = "returned"
         /\ res[h] \in {"io_error", "csv_error"})
        => /\ file = pre[h]
           /\ read_all(file) = read_all(pre[h])

\* A rewrite has failed after it wrote part of its output: the temporary
\* file is left with rows in it, the store holds the records it held.
C3_Witness ==
    \E h \in Handles :
        /\ Rewrite(h)
        /\ pc[h] = "returned"
        /\ res[h] \in {"io_error", "csv_error"}
        /\ tmp.exists
        /\ tmp.rows # <<>>
        /\ Len(Records(pre[h])) = 2
        /\ file = pre[h]

\* C4: update_multiple(U), U not empty and with distinct ids, on records R
\* with distinct ids: read_all returns as many records as R, the k-th with
\* the id of R[k], equal to the record of U with that id when there is one
\* and to R[k] otherwise.
C4_UpdateManyMerges ==
    \A h \in Handles :
        LET R == Records(pre[h])
            U == op[h].data
            A == read_all(file)
        IN (/\ op[h].name = "update_multiple"
            /\ pc[h] = "returned"
            /\ res[h] = "ok"
            /\ U # <<>>
            /\ read_all(pre[h]).ok
            /\ DistinctIds(R)
            /\ DistinctIds(U))
           => /\ A.ok
              /\ Len(A.rows) = Len(R)
              /\ \A k \in 1..Len(R) :
                    /\ id(A.rows[k]) = id(R[k])
                    /\ IF \E j \in 1..Len(U) : id(U[j]) = id(R[k])
                       THEN \E j \in 1..Len(U) :
                               id(U[j]) = id(R[k]) /\ A.rows[k] = U[j]
                       ELSE A.rows[k] = R[k]

\* Two records, the update of one of them to another amount: the other one
\* is read back as it was.
C4_Witness ==
    \E h \in Handles :
        LET R == Records(pre[h])
            U == op[h].data
        IN /\ op[h].name = "update_multiple"
           /\ pc[h] = "returned"
           /\ res[h] = "ok"
           /\ Len(R) = 2
           /\ DistinctIds(R)
           /\ Len(U) = 1
           /\ id(U[1]) = id(R[2])
           /\ U[1] # R[2]
           /\ Records(file) = <<R[1], U[1]>>

\* C5: delete(x) of a present id: read_all returns the records from before
\* without those of id x, in their order; member(x) is false, get(x) is
\* empty, and size fell by the number of records that had id x.
C5_DeleteRemovesId ==
    \A h \in Handles :
        LET R == Records(pre[h])
            x == op[h].id
        IN (/\ op[h].name = "delete"
            /\ pc[h] = "returned"
            /\ res[h] = "ok"
            /\ read_all(pre[h]).ok
            /\ member(pre[h], x).val)
           => /\ read_all(file) = Ok(Without(R, x))
              /\ member(file, x) = [ok |-> TRUE, val |-> FALSE]
              /\ get(file, x) = [ok |-> TRUE, val |-> <<>>]
              /\ size(file).ok
              /\ size(file).val =
                    Len(R) - Cardinality({k \in 1..Len(R) : id(R[k]) = x})
              /\ DistinctIds(R) => size(file).val = Len(R) - 1

\* The first of two records is deleted; the second is what is left.
C5_Witness ==
    \E h \in Handles :
        LET R == Records(pre[h])
        IN /\ op[h].name = "delete"
           /\ pc[h] = "returned"
           /\ res[h] = "ok"
           /\ Len(R) = 2
           /\ id(R[1]) = op[h].id
           /\ id(R[2]) # op[h].id
           /\ Records(file) = <<R[2]>>

\* C6: update/update_multiple with ids no stored record has: read_all
\* returns after the call what it returned before it.
C6_UpdateAbsentIsNoOp ==
    \A h \in Handles :
        LET R == Records(pre[h])
            U == op[h].data
        IN (/\ op[h].name = "update_multiple"
            /\ pc[h] = "returned"
            /\ U # <<>>
            /\ read_all(pre[h]).ok
            /\ \A j \in 1..Len(U), k \in 1..Len(R) : id(U[j]) # id(R[k]))
           => read_all(file) = read_all(pre[h])

\* An update for an id that is not stored has returned Ok on a store that
\* holds a record.
C6_Witness ==
    \E h \in Handles :
        LET R == Records(pre[h])
            U == op[h].data
        IN /\ op[h].name = "update_multiple"
           /\ pc[h] = "returned"
           /\ res[h] = "ok"
           /\ Len(U) = 1
           /\ Len(R) = 1
           /\ id(U[1]) # id(R[1])
           /\ Records(file) = R

\* C7: delete of an id no stored record has returns Ok, short of an I/O
\* error, and read_all and size return what they returned before.
C7_DeleteAbsentIsNoOp ==
    \A h \in Handles :
        (/\ op[h].name = "delete"
         /\ pc[h] = "returned"
         /\ read_all(pre[h]).ok
         /\ ~member(pre[h], op[h].id).val)
        => /\ res[h] \notin {"io_error", "crash"} => res[h] = "ok"
           /\ read_all(file) = read_all(pre[h])
           /\ size(file) = size(pre[h])

\* delete of an absent id has returned Ok on a store that holds a record.
C7_Witness ==
    \E h \in Handles :
        /\ op[h].name = "delete"
        /\ pc[h] = "returned"
        /\ res[h] = "ok"
        /\ Len(Records(pre[h])) = 1
        /\ ~member(pre[h], op[h].id).val
        /\ file = pre[h]

\* C8: overwrite of an empty vector returns the error and leaves the file
\* as it was.
C8_EmptyOverwriteRefused ==
    \A h \in Handles :
        (/\ op[h].name = "overwrite"
         /\ op[h].data = <<>>
         /\ pc[h] = "returned")
        => /\ res[h] = "empty_error"
           /\ file = pre[h]
           /\ read_all(file) = read_all(pre[h])

\* overwrite([]) has been refused on a store that holds records.
C8_Witness ==
    \E h \in Handles :
        /\ op[h].name = "overwrite"
        /\ op[h].data = <<>>
        /\ pc[h] = "returned"
        /\ res[h] = "empty_error"
        /\ Len(Records(file)) = 2

\* C9: after inserts only, on a store that was empty, read_all returns the
\* records inserted, in the order of the calls and of the vectors, and size
\* is their number.
C9_InsertRoundTrip ==
    ilog.valid
    => /\ read_all(file) = Ok(ilog.recs)
       /\ size(file) = [ok |-> TRUE, val |-> Len(ilog.recs)]

\* A second insert has appended one record to a store that held one.
C9_Witness ==
    \E h \in Handles :
        /\ ilog.valid
        /\ op[h].name = "insert_multiple"
        /\ pc[h] = "returned"
        /\ res[h] = "ok"
        /\ Len(op[h].data) = 1
        /\ Len(Records(pre[h])) = 1
        /\ Records(file) = Records(pre[h]) \o op[h].data

\* C10: as long as every operation has succeeded, the file is empty or one
\* header row followed by record rows; an append emits the header exactly
\* when the file is empty; and an insert returns with read_all giving the
\* records from before followed by the records inserted.
C10_HeaderInvariant ==
    clean
    => /\ WellFormed(file)
       /\ \A h \in Handles :
            /\ pc[h] \in {"insert_serialize", "insert_flush"}
               => ((whdr[h] # "none") <=> (Len(file) = 0))
            /\ (op[h].name = "insert_multiple" /\ pc[h] = "returned")
               => read_all(file) = Ok(Records(pre[h]) \o op[h].data)

\* An insert into a store that a delete had emptied: the header is there
\* again and the record is read back.
C10_Witness ==
    \E h \in Handles :
        /\ clean
        /\ ~ilog.valid
        /\ op[h].name = "insert_multiple"
        /\ pc[h] = "returned"
        /\ pre[h] = <<>>
        /\ Len(op[h].data) = 1
        /\ file = <<HeaderRow, serialize(op[h].data[1])>>

\* The ids of a record sequence.
IdsOf(recs) == [k \in 1..Len(recs) |-> id(recs[k])]

\* C11 as stated: on the record store, starting empty, size() is 1 after the
\* record with id 0 was inserted twice and 2 after the record with id 1 was
\* inserted too; after delete(0), size() is 1 and get(0) is empty.
C11_ScenarioAsStated ==
    /\ (ilog.valid /\ IdsOf(ilog.recs) = <<0, 0>>) => size(file).val = 1
    /\ (ilog.valid /\ IdsOf(ilog.recs) = <<0, 0, 1>>) => size(file).val = 2
    /\ \A h \in Handles :
          (/\ op[h].name = "delete" /\ op[h].id = 0
           /\ pc[h] = "returned" /\ res[h] = "ok"
           /\ IdsOf(Records(pre[h])) = <<0, 0, 1>>)
          => size(file).val = 1 /\ get(file, 0).val = <<>>

\* C11, amended: insert appends and looks for no record with the same id,
\* so size() is 2 after the record with id 0 was inserted twice and 3 after
\* the record with id 1 was inserted too; delete(0) removes both records with
\* id 0: size() is 1, get(0) is empty, and the record with id 1 is what
\* read_all returns.
C11_ScenarioAppends ==
    /\ (ilog.valid /\ IdsOf(ilog.recs) = <<0, 0>>)
       => size(file) = [ok |-> TRUE, val |-> 2]
    /\ (ilog.valid /\ IdsOf(ilog.recs) = <<0, 0, 1>>)
       => size(file) = [ok |-> TRUE, val |-> 3]
    /\ \A h \in Handles :
          (/\ op[h].name = "delete" /\ op[h].id = 0
           /\ pc[h] = "returned" /\ res[h] = "ok"
           /\ IdsOf(Records(pre[h])) = <<0, 0, 1>>)
          => /\ size(file) = [ok |-> TRUE, val |-> 1]
             /\ get(file, 0) = [ok |-> TRUE, val |-> <<>>]
             /\ read_all(file) = Ok(<<Records(pre[h])[3]>>)

\* The scenario has run to its end: three records were stored, two of them
\* with id 0, and delete(0) has left the one with id 1.
C11_Witness ==
    \E h \in Handles :
        /\ op[h].name = "delete" /\ op[h].id = 0
        /\ pc[h] = "returned" /\ res[h] = "ok"
        /\ IdsOf(Records(pre[h])) = <<0, 0, 1>>
        /\ size(pre[h]).val = 3
        /\ size(file).val = 1
        /\ id(Records(file)[1]) = 1

\* C12: Dict::insert is an upsert.  After insert(k, v) has returned Ok,
\* get(k) returns v; size() is what it was before the call when k had a
\* value and one more when it had none; the other keys have the values they
\* had; and no key ever has two values.
C12_InsertIsUpsert ==
    /\ index.exists
    /\ \A k \in DOMAIN index.map : Len(index.map[k]) = 1
    /\ Len(Dict_pairs(index).val) = Len(Dict_keys(index).val)
    /\ (dop.name = "insert" /\ dpc = "returned" /\ dres.kind = "ok")
       => /\ Dict_get(index, dop.key) = DOk(dop.val)
          /\ Dict_size(index).val[1] =
                Dict_size(dpre).val[1] + (IF dop.key \in DOMAIN dpre.map THEN 0 ELSE 1)
          /\ \A k \in Keys \ {dop.key} : Dict_get(index, k) = Dict_get(dpre, k)

\* The second insert of a key, with another value: the value is the new
\* one and the store holds as many keys as before.
C12_Witness ==
    /\ dop.name = "insert"
    /\ dpc = "returned"
    /\ dres.kind = "ok"
    /\ dop.key \in DOMAIN dpre.map
    /\ Dict_get(dpre, dop.key).val # dop.val
    /\ Dict_get(index, dop.key).val = dop.val
    /\ Dict_size(index) = Dict_size(dpre)
    /\ Dict_size(index).val[1] = 2

\* C13: Dict::clear empties the store and leaves it usable.  After clear
\* has returned Ok, keys(), values() and pairs() are empty and size() is 0;
\* an insert(k, v) made after it returns with get(k) giving v and size() 1.
\* The committed index is never missing: it is the index from before the
\* call until the commit and the empty index from then on, and size()
\* through another handle never fails.
C13_ClearEmptiesAtOnce ==
    /\ index.exists
    /\ dobs.seen => dobs.res.kind = "ok"
    /\ (dop.name = "clear" /\ dpc # "idle")
       => /\ index \in {dpre, EmptyIndex}
          /\ dpc # "returned" => index = dpre
          /\ (dpc = "returned" /\ dres.kind # "ok") => index = dpre
    /\ (dop.name = "clear" /\ dpc = "returned" /\ dres.kind = "ok")
       => /\ Dict_keys(index) = DOk(<<>>)
          /\ Dict_values(index) = DOk(<<>>)
          /\ Dict_pairs(index) = DOk(<<>>)
          /\ Dict_size(index) = DOk(<<0>>)
    /\ (dop.name = "insert" /\ dop.after = "clear" /\ dpc = "returned"
        /\ dres.kind = "ok")
       => /\ Dict_get(index, dop.key) = DOk(dop.val)
          /\ Dict_size(index) = DOk(<<1>>)
          /\ Dict_keys(index) = DOk(<<dop.key>>)

\* clear has emptied a store that held two keys, while the size read
\* through another handle during the call was still 2.
C13_Witness ==
    /\ dop.name = "clear"
    /\ dpc = "returned"
    /\ dres.kind = "ok"
    /\ Dict_size(dpre) = DOk(<<2>>)
    /\ Dict_size(index) = DOk(<<0>>)
    /\ dobs.seen
    /\ dobs.res = DOk(<<2>>)

\* The first insert after a clear has returned: the key has its value.
C13_WitnessInsertAfterClear ==
    /\ dop.name = "insert"
    /\ dop.after = "clear"
    /\ dpc = "returned"
    /\ dres.kind = "ok"
    /\ Dict_get(index, dop.key) = DOk(dop.val)

\* The extension store s asks of its path.
Wanted(s) == IF s = "rows" THEN Csv ELSE Persy

\* C14: Rows::new and Dict::new on the empty path, or on a path whose
\* extension is not csv (Rows) or persy (Dict), return an error, whether
\* there is a file at the path or not, and leave every file as it was: none
\* is created, none is changed.
C14_BadPathRefused ==
    made.store # "none"
    => LET e == extension(made.path)
       IN (made.path = <<>> \/ ~e.some \/ e.val # Wanted(made.store))
          => /\ ~made.ok
             /\ disk = made.before

\* Rows::new was refused on a path that ends in .persy and holds a file,
\* on a file system that also has a file at a path with no extension.
C14_Witness ==
    /\ made.store = "rows"
    /\ extension(made.path) = Some(Persy)
    /\ made.before[made.path].exists
    /\ ~made.ok
    /\ disk = made.before
    /\ \E p \in Paths : extension(p) = None /\ p # <<>> /\ disk[p].exists

\* C20: Rows::new changes no stored data.  On a path that holds a file it
\* leaves the file as it is, so that read_all through the new handle returns
\* what it returned before; it creates a file, empty, only where there was
\* none; and it touches no other path.
C20_OpenKeepsContent ==
    (made.store = "rows" /\ made.ok)
    => LET p == made.path
       IN /\ made.before[p].exists
             => /\ disk[p] = made.before[p]
                /\ read_all(disk[p].rows) = read_all(made.before[p].rows)
          /\ ~made.before[p].exists => disk[p] = [exists |-> TRUE, rows |-> <<>>]
          /\ \A q \in Paths \ {p} : disk[q] = made.before[q]

\* A handle was opened on a file that holds a record: the record is there.
C20_Witness ==
    /\ made.store = "rows"
    /\ made.ok
    /\ made.before[made.path] = CsvFile
    /\ disk[made.path] = CsvFile
    /\ Len(read_all(disk[made.path].rows).rows) = 1

\* C15: an id or key the store does not hold is no error.  On the record
\* store, whenever the file decodes, get of an id no record has returns Ok
\* with no value and member returns Ok(false), and get and member fail only
\* when the file does not decode; as long as every call has succeeded the
\* file decodes, in particular when the store was just created, after drop
\* and after the delete of its last record.  On the key-value store the
\* index is always there, and get of a key it does not have returns Ok with
\* no value and member Ok(false).
C15_AbsentIsNotAnError ==
    /\ clean => read_all(file).ok
    /\ \A i \in Ids :
          /\ get(file, i).ok <=> read_all(file).ok
          /\ member(file, i).ok <=> read_all(file).ok
          /\ (read_all(file).ok /\ ~\E k \in 1..Len(Records(file)) : id(Records(file)[k]) = i)
             => /\ get(file, i) = [ok |-> TRUE, val |-> <<>>]
                /\ member(file, i) = [ok |-> TRUE, val |-> FALSE]
    /\ \A h \in Handles :
          (pc[h] = "returned" /\ res[h] = "ok" /\ op[h].name = "drop")
          => \A i \in Ids : get(file, i) = [ok |-> TRUE, val |-> <<>>]
    /\ index.exists
    /\ \A k \in Keys \ DOMAIN index.map :
          /\ Dict_get(index, k) = DOk(<<>>)
          /\ Dict_member(index, k) = DOk(<<FALSE>>)
    /\ (dpc = "returned" /\ dop.name = "get" /\ dop.key \notin DOMAIN index.map)
       => dres = DOk(<<>>)
    /\ (dpc = "returned" /\ dop.name = "member" /\ dop.key \notin DOMAIN index.map)
       => dres = DOk(<<FALSE>>)

\* The delete of the only record has returned: the store is empty and get
\* of the id that was deleted is Ok with no value.
C15_Witness ==
    \E h \in Handles :
        /\ op[h].name = "delete"
        /\ pc[h] = "returned"
        /\ res[h] = "ok"
        /\ Len(Records(pre[h])) = 1
        /\ id(Records(pre[h])[1]) = op[h].id
        /\ size(file) = [ok |-> TRUE, val |-> 0]
        /\ get(file, op[h].id) = [ok |-> TRUE, val |-> <<>>]
        /\ member(file, op[h].id) = [ok |-> TRUE, val |-> FALSE]

\* get of a key a cleared index does not have has returned Ok with no
\* value.
C15_WitnessDict ==
    /\ dpc = "returned"
    /\ dop.name = "get"
    /\ dop.after = "clear"
    /\ dres = DOk(<<>>)

\* C17 as stated: delete of an id no record has goes on to the rewrite (the
\* temporary file is created, the records are copied, the file is renamed).
C17_AbsentDeleteRewrites ==
    [][\A h \in Handles :
          (/\ pc[h] = "idle"
           /\ pc'[h] # "idle"
           /\ op'[h].name = "delete"
           /\ read_all(file).ok
           /\ ~member(file, op'[h].id).val
           /\ res'[h] # "io_error")
          => pc'[h] = "temp_open"]_vars

\* C17, amended: delete of an id no record has performs no rewrite.  The
\* call ends where it begins, after member has read the file: it never is at
\* a step of with_temp_file, it returns Ok unless reading failed, and the
\* file at the store path and the file at the temporary path, if there is
\* one, are what they were.
C17_AbsentDeleteSkipsRewrite ==
    \A h \in Handles :
        (/\ op[h].name = "delete"
         /\ pc[h] # "idle"
         /\ read_all(pre[h]).ok
         /\ ~member(pre[h], op[h].id).val)
        => /\ pc[h] = "returned"
           /\ res[h] \in {"ok", "io_error"}
           /\ file = pre[h]
           /\ tmp = pretmp[h]

\* delete of an absent id has returned Ok on a store that holds a record and
\* has a temporary file left from a failed rewrite: both files are as they
\* were.
C17_Witness ==
    \E h \in Handles :
        /\ op[h].name = "delete"
        /\ pc[h] = "returned"
        /\ res[h] = "ok"
        /\ Len(Records(pre[h])) = 1
        /\ ~member(pre[h], op[h].id).val
        /\ pretmp[h].exists
        /\ tmp = pretmp[h]
        /\ file = pre[h]

\* C19: a temporary file left by a failed or crashed rewrite, whatever it
\* holds, has no effect on what comes after.  A rewrite truncates it when it
\* creates its temporary file.  On a well-formed store file, a mutating call
\* made while it is there returns Ok with read_all and size giving what the
\* call is to produce from the records of the store file alone, the file a
\* rewrite renames holds exactly the new content, and no temporary file is
\* left behind.
C19_StaleTempIgnored ==
    \A h \in Handles :
        (pc[h] # "idle" /\ pretmp[h].exists)
        => /\ (Rewrite(h) /\ pc[h] \in {"temp_loop", "temp_flush"})
              => tmp = [exists |-> TRUE, rows |-> <<>>]
           /\ WellFormed(pre[h])
              => /\ (Mutating(h) /\ pc[h] = "returned" /\ res[h] = "ok")
                    => /\ read_all(file) = Ok(Expected(h))
                       /\ size(file) = [ok |-> TRUE, val |-> Len(Expected(h))]
                 /\ (Rewrite(h) /\ pc[h] = "temp_rename")
                    => tmp = [exists |-> TRUE, rows |-> Rendered(Expected(h))]
                 /\ (Rewrite(h) /\ pc[h] = "returned" /\ res[h] = "ok"
                     /\ (op[h].name = "delete" => member(pre[h], op[h].id).val)
                     /\ (op[h].name = "update_multiple" => op[h].data # <<>>))
                    => /\ file = Rendered(Expected(h))
                       /\ ~tmp.exists

\* A rewrite has returned Ok that found a temporary file with rows in it
\* and more rows than it wrote itself: the store file is the new content.
C19_Witness ==
    \E h \in Handles :
        /\ Rewrite(h)
        /\ pc[h] = "returned"
        /\ res[h] = "ok"
        /\ pretmp[h].exists
        /\ Len(pretmp[h].rows) > Len(file)
        /\ file = Rendered(Expected(h))
        /\ file # pre[h]
        /\ ~tmp.exists

\* The temporary file of the rewrite of handle h has been created and the
\* rewrite has neither renamed it nor failed.
Owns(h) == pc[h] \in {"temp_loop", "temp_flush", "temp_rename"}

\* The step is one of the call of handle h.
StepOf(h) == pc'[h] # pc[h] \/ rpos'[h] # rpos[h] \/ wbuf'[h] # wbuf[h]

\* C16 as stated: from its creation to the rename or the error of the
\* rewrite, the temporary file is changed by no step but those of that
\* rewrite, a rewrite through another handle on the same path included.
C16_TempFileExclusive ==
    [][\A h \in AllHandles : (Owns(h) /\ tmp' # tmp) => StepOf(h)]_vars

\* C16, amended: the temporary file of a rewrite in flight is created,
\* truncated, written and renamed by the steps of rewrites only: by those of
\* the rewrite itself and, the temporary path being the same for every
\* handle on the store path, by those of a rewrite that runs through another
\* handle at the same time.  insert, overwrite and drop through another
\* handle leave it alone.
C16_TempFileOfRewritesOnly ==
    [][\A h \in AllHandles :
          (Owns(h) /\ tmp' # tmp /\ ~StepOf(h))
          => \E g \in AllHandles \ {h} :
                /\ Rewrite(g)
                /\ pc[g] \in {"temp_create", "temp_flush", "temp_rename"}
                /\ pc'[g] # pc[g]]_vars

\* A rewrite is about to rename its temporary file, which holds the new
\* content, and an overwrite that another handle began after that file was
\* created has truncated the store file.
C16_Witness ==
    \E h, g \in AllHandles :
        /\ h # g
        /\ op[h].name = "update_multiple"
        /\ pc[h] = "temp_rename"
        /\ tmp = [exists |-> TRUE, rows |-> Rendered(Merged(Records(pre[h]), op[h].data))]
        /\ op[g].name = "overwrite"
        /\ pc[g] = "overwrite_flush"
        /\ pretmp[g].exists
        /\ pre[g] = pre[h]
        /\ file = <<>>

\* Two updates of different ids through the two handles, both begun on the
\* same file content, have both returned Ok.
BothUpdated ==
    /\ \A h \in AllHandles :
          /\ op[h].name = "update_multiple"
          /\ pc[h] = "returned"
          /\ res[h] = "ok"
    /\ pre[1] = pre[2]
    /\ id(op[1].data[1]) # id(op[2].data[1])

\* C18: nothing keeps two rewrites through two handles apart, and the later
\* rename wins.  What a rewrite renames into place is computed from the file
\* its reader opened, whatever a rename through the other handle has put at
\* the store path since; and when two updates of different ids begun on the
\* same content have both returned Ok, the file holds the result of one of
\* them applied to that content, or to the result of the other: nothing is
\* merged at the rename.
C18_LastRenameWins ==
    /\ \A h \in AllHandles :
          (/\ op[h].name = "update_multiple"
           /\ pc[h] = "temp_rename"
           /\ wtgt[h] = "own"
           /\ \A g \in AllHandles \ {h} : Rewrite(g)
           /\ \A g \in AllHandles \ {h} : ~(TempWriter(g) /\ wtgt[g] = "own"))
          => LET read == IF rlive[h] THEN file ELSE rold[h]
             IN tmp = [exists |-> TRUE,
                       rows |-> Rendered(Merged(Records(read), op[h].data))]
    /\ BothUpdated
       => LET F == Records(pre[1])
          IN file \in {Rendered(Merged(F, op[1].data)),
                       Rendered(Merged(F, op[2].data)),
                       Rendered(Merged(Merged(F, op[1].data), op[2].data))}

\* The lost update: both updates have returned Ok, each changes the record
\* with its id, and the file holds the change of one of them only.
C18_Witness ==
    \E h, g \in AllHandles :
        /\ h # g
        /\ BothUpdated
        /\ LET F == Records(pre[h])
           IN /\ Len(F) = 2
              /\ Merged(F, op[h].data) # F
              /\ Merged(F, op[g].data) # F
              /\ Records(file) = Merged(F, op[g].data)
              /\ Records(file) # Merged(Merged(F, op[h].data), op[g].data)

====
